---- MODULE Spec2Model ----
(***************************************************************************)
(* grisbi: encrypted backup tool (src/grisbi.py).  The model covers the    *)
(* command-line entry point and the four modes it selects (backup, check,  *)
(* restore, prune): configuration parsing, target resolution, the archive  *)
(* loop with its two external tools, archive naming, decryption and        *)
(* extraction, and the retention scan.                                     *)
(*                                                                         *)
(* Strings are sequences of one-character strings, so that the regular     *)
(* expressions, strftime and strptime are computed on characters.  The     *)
(* alphabet is a subset of ASCII.                                          *)
(***************************************************************************)
EXTENDS Integers, Sequences, FiniteSets, TLC

(***************************************************************************)
(* Characters and strings                                                  *)
(***************************************************************************)

\* The characters of the model in ascending code-point order.
Ascii ==
    << "\n", " ", "#", "-", ".", "/",
       "0", "1", "2", "3", "4", "5", "6", "7", "8", "9",
       "a", "b", "c", "d", "e", "f", "g", "h", "i", "k", "l", "n", "o",
       "p", "r", "s", "t", "u", "x", "y", "z", "~" >>

Chars == { Ascii[i] : i \in 1..Len(Ascii) }

\* ord(c), up to an order-preserving renumbering.
Ord == [ c \in Chars |-> CHOOSE i \in 1..Len(Ascii) : Ascii[i] = c ]

DigitChars == << "0", "1", "2", "3", "4", "5", "6", "7", "8", "9" >>

\* str.isdigit() / the regex class \d on one character of the alphabet.
IsDigitChar(c) == \E i \in 1..10 : DigitChars[i] = c

\* int(c) for a digit character.
DigitVal(c) == (CHOOSE i \in 1..10 : DigitChars[i] = c) - 1

\* a < b on str: lexicographic by code point.
RECURSIVE StrLess(_, _)
StrLess(a, b) ==
    IF b = << >> THEN FALSE
    ELSE IF a = << >> THEN TRUE
    ELSE IF Head(a) # Head(b) THEN Ord[Head(a)] < Ord[Head(b)]
    ELSE StrLess(Tail(a), Tail(b))

\* sorted(S) for a set of strings.
RECURSIVE SortedNames(_)
SortedNames(S) ==
    IF S = {} THEN << >>
    ELSE LET m == CHOOSE x \in S : \A y \in S \ {x} : StrLess(x, y)
         IN  << m >> \o SortedNames(S \ {m})

\* s.startswith(p) and s.endswith(p)
StartsWith(s, p) == Len(p) <= Len(s) /\ SubSeq(s, 1, Len(p)) = p

EndsWith(s, p) ==
    Len(p) <= Len(s) /\ SubSeq(s, Len(s) - Len(p) + 1, Len(s)) = p

\* str.isspace() on one character of the alphabet.
IsSpaceChar(c) == c \in { " ", "\n" }

\* s.strip()
RECURSIVE LStrip(_)
LStrip(s) ==
    IF s # << >> /\ IsSpaceChar(Head(s)) THEN LStrip(Tail(s)) ELSE s

RECURSIVE RStrip(_)
RStrip(s) ==
    IF s # << >> /\ IsSpaceChar(s[Len(s)])
    THEN RStrip(SubSeq(s, 1, Len(s) - 1)) ELSE s

Strip(s) == RStrip(LStrip(s))

\* s.isdigit(): non-empty and every character a digit.
IsDigitStr(s) == s # << >> /\ \A i \in 1..Len(s) : IsDigitChar(s[i])

\* int(s) for a digit string.
RECURSIVE IntOf(_)
IntOf(s) ==
    IF s = << >> THEN 0
    ELSE 10 * IntOf(SubSeq(s, 1, Len(s) - 1)) + DigitVal(s[Len(s)])

\* Zero-padded decimal of width 2 and 4 (strftime %m %d %H %M %S, and %Y).
Pad2(n) ==
    << DigitChars[((n \div 10) % 10) + 1], DigitChars[(n % 10) + 1] >>

Pad4(n) == Pad2(n \div 100) \o Pad2(n % 100)

(***************************************************************************)
(* datetime                                                                *)
(***************************************************************************)

IsLeap(y) == y % 4 = 0 /\ (y % 100 # 0 \/ y % 400 = 0)

DaysInMonth(y, m) ==
    IF m = 2 THEN (IF IsLeap(y) THEN 29 ELSE 28)
    ELSE IF m \in {4, 6, 9, 11} THEN 30 ELSE 31

\* Days in the year before the first day of month m.
RECURSIVE DaysBeforeMonth(_, _)
DaysBeforeMonth(y, m) ==
    IF m = 1 THEN 0 ELSE DaysBeforeMonth(y, m - 1) + DaysInMonth(y, m - 1)

\* Days before January 1st of year y.
DaysBeforeYear(y) ==
    (y - 1) * 365 + (y - 1) \div 4 - (y - 1) \div 100 + (y - 1) \div 400

\* date.toordinal()
ToOrdinal(dt) ==
    DaysBeforeYear(dt.year) + DaysBeforeMonth(dt.year, dt.month) + dt.day

DateTime(y, mo, d, h, mi, s, us) ==
    [ year |-> y, month |-> mo, day |-> d,
      hour |-> h, minute |-> mi, second |-> s, microsecond |-> us ]

\* datetime - datetime: a timedelta normalised as Python normalises it,
\* 0 <= seconds < 86400 and 0 <= microseconds < 1000000, days of any sign.
DateTimeSub(a, b) ==
    LET d0 == ToOrdinal(a) - ToOrdinal(b)
        s0 == (a.second + a.minute * 60 + a.hour * 3600)
              - (b.second + b.minute * 60 + b.hour * 3600)
        u0 == a.microsecond - b.microsecond
        s1 == s0 + (u0 \div 1000000)
    IN  [ days         |-> d0 + (s1 \div 86400),
          seconds      |-> s1 % 86400,
          microseconds |-> u0 % 1000000 ]

\* td.total_seconds() / 86400 > n, for an integer n.  The quotient is
\* compared exactly: with 0 <= seconds < 86400 and 0 <= microseconds < 10^6
\* it exceeds n iff days > n, or days = n and a second or microsecond is left.
AgeDaysExceeds(td, n) ==
    \/ td.days > n
    \/ td.days = n /\ (td.seconds > 0 \/ td.microseconds > 0)

\* Mutant of Strftime: day and month change places.
Strftime_DayMonth(dt) ==
    Pad4(dt.year) \o << "-" >> \o Pad2(dt.day) \o << "-" >> \o Pad2(dt.month)
    \o << "-" >> \o Pad2(dt.hour) \o Pad2(dt.minute) \o Pad2(dt.second)

\* now.strftime("%Y-%m-%d-%H%M%S")
Strftime(dt) ==
    Pad4(dt.year) \o << "-" >> \o Pad2(dt.month) \o << "-" >> \o Pad2(dt.day)
    \o << "-" >> \o Pad2(dt.hour) \o Pad2(dt.minute) \o Pad2(dt.second)

\* strptime raising ValueError, as a value that no datetime equals (year 0
\* is out of range for a datetime).
ValueError == DateTime(0, 0, 0, 0, 0, 0, 0)

\* datetime.strptime(ts, "%Y-%m-%d-%H%M%S") for ts of the shape the
\* timestamp pattern captures (4-2-2-6 digits): %m accepts 01..12, %d 01..31,
\* %H 00..23, %M 00..59, %S 00..61, and the date and datetime constructors
\* then reject year 0, a day past the month's end and a second above 59.
Strptime(ts) ==
    LET y  == IntOf(SubSeq(ts, 1, 4))
        mo == IntOf(SubSeq(ts, 6, 7))
        d  == IntOf(SubSeq(ts, 9, 10))
        h  == IntOf(SubSeq(ts, 12, 13))
        mi == IntOf(SubSeq(ts, 14, 15))
        s  == IntOf(SubSeq(ts, 16, 17))
        fieldsMatch == /\ mo \in 1..12
                        /\ d \in 1..31
                        /\ h \in 0..23
                        /\ mi \in 0..59
                        /\ s \in 0..61
    IN  IF /\ fieldsMatch
           /\ y >= 1
           /\ d <= DaysInMonth(y, mo)
           /\ s <= 59
        THEN DateTime(y, mo, d, h, mi, s, 0)
        ELSE ValueError

(***************************************************************************)
(* Regular expressions                                                     *)
(***************************************************************************)

\* The pattern element \d; every other element is a literal character.
D == "\\d"

ElemMatches(e, c) == IF e = D THEN IsDigitChar(c) ELSE e = c

\* The elements of pat match s from position i on.
MatchAt(s, i, pat) ==
    /\ i + Len(pat) - 1 <= Len(s)
    /\ \A k \in 1..Len(pat) : ElemMatches(pat[k], s[i + k - 1])

\* $ at position p of s (the position after the match): the end of the
\* string, or just before a newline that ends the string.
AtDollar(s, p) == p = Len(s) + 1 \/ (p = Len(s) /\ s[p] = "\n")

TarGzAge == << ".", "t", "a", "r", ".", "g", "z", ".", "a", "g", "e" >>

\* ts_pattern = re.compile(r"-(\d{4}-\d{2}-\d{2}-\d{6})\.tar\.gz\.age$"),
\* without the final $.
ts_pattern ==
    << "-", D, D, D, D, "-", D, D, "-", D, D, "-", D, D, D, D, D, D >>
    \o TarGzAge

\* None, where a string is expected.
None == << "None" >>

NoMatch == None

\* Mutant of TsMatchPositions: the pattern without its final $.
TsMatchPositions_Unanchored(name) ==
    { i \in 1..Len(name) : MatchAt(name, i, ts_pattern) }

\* Positions where ts_pattern matches with $ after it.
TsMatchPositions(name) ==
    { i \in 1..Len(name) :
        MatchAt(name, i, ts_pattern) /\ AtDollar(name, i + Len(ts_pattern)) }

\* ts_pattern.search(name): group(1) of the leftmost match, or None.
TsSearch(name) ==
    LET pos == TsMatchPositions(name)
    IN  IF pos = {} THEN NoMatch
        ELSE LET i == CHOOSE x \in pos : \A y \in pos : x <= y
             IN  SubSeq(name, i + 1, i + 17)

\* Path(".").glob("*.tar.gz.age") on one name.
GlobMatches(name) == EndsWith(name, TarGzAge)

KwPath      == << "p", "a", "t", "h" >>
KwDirectory == << "d", "i", "r", "e", "c", "t", "o", "r", "y" >>
KwFolder    == << "f", "o", "l", "d", "e", "r" >>

\* Mutant of DirectiveOf: the keyword alone, without \s+ after it.
DirectiveOf_PrefixOnly(s) ==
    IF StartsWith(s, KwPath) THEN KwPath
    ELSE IF StartsWith(s, KwDirectory) THEN KwDirectory
    ELSE IF StartsWith(s, KwFolder) THEN KwFolder
    ELSE NoMatch

\* The keyword that (path|directory|folder) matches at the start of s with
\* \s+ after it, or None: the alternatives are tried in order.
DirectiveOf(s) ==
    LET ok(kw) == /\ StartsWith(s, kw)
                  /\ Len(s) > Len(kw)
                  /\ IsSpaceChar(s[Len(kw) + 1])
    IN  IF ok(KwPath) THEN KwPath
        ELSE IF ok(KwDirectory) THEN KwDirectory
        ELSE IF ok(KwFolder) THEN KwFolder
        ELSE NoMatch

(***************************************************************************)
(* Paths and the file system outside the working directory                 *)
(***************************************************************************)

\* Append a finished component unless it is empty or ".".
PushPart(acc, cur) ==
    IF cur = << >> \/ cur = << "." >> THEN acc ELSE Append(acc, cur)

RECURSIVE SplitParts(_, _, _)
SplitParts(s, cur, acc) ==
    IF s = << >> THEN PushPart(acc, cur)
    ELSE IF Head(s) = "/" THEN SplitParts(Tail(s), << >>, PushPart(acc, cur))
    ELSE SplitParts(Tail(s), Append(cur, Head(s)), acc)

\* Path(path_str)
PathOf(s) ==
    [ abs   |-> s # << >> /\ Head(s) = "/",
      parts |-> SplitParts(s, << >>, << >>) ]

RECURSIVE JoinParts(_)
JoinParts(parts) ==
    IF parts = << >> THEN << >>
    ELSE IF Len(parts) = 1 THEN parts[1]
    ELSE parts[1] \o << "/" >> \o JoinParts(Tail(parts))

\* str(p)
PathStr(p) ==
    IF p.abs THEN << "/" >> \o JoinParts(p.parts)
    ELSE IF p.parts = << >> THEN << "." >>
    ELSE JoinParts(p.parts)

\* p.name
PathName(p) == IF p.parts = << >> THEN << >> ELSE p.parts[Len(p.parts)]

\* p.parent
PathParent(p) ==
    IF p.parts = << >> THEN p
    ELSE [ p EXCEPT !.parts = SubSeq(p.parts, 1, Len(p.parts) - 1) ]

Home == << "/", "h" >>

\* Two directory names that end like an archive name and like a timestamp:
\* "a-2020-01-15-120000.tar.gz.age" and "c-2020-01-15-120000".
DirLikeArchive ==
    << "a", "-", "2", "0", "2", "0", "-", "0", "1", "-", "1", "5", "-",
       "1", "2", "0", "0", "0", "0",
       ".", "t", "a", "r", ".", "g", "z", ".", "a", "g", "e" >>

DirLikeStamp ==
    << "c", "-", "2", "0", "2", "0", "-", "0", "1", "-", "1", "5", "-",
       "1", "2", "0", "0", "0", "0" >>

\* The directories and plain files under the home directory, as parts.
SrcDirs ==
    { << << "h" >> >>,
      << << "h" >>, << "s" >> >>,
      << << "h" >>, << "s" >>, << "a" >> >>,
      << << "h" >>, << "s" >>, << "b" >> >>,
      << << "h" >>, << "t" >> >>,
      << << "h" >>, << "t" >>, << "a" >> >>,
      << << "h" >>, << "e" >> >>,
      << << "h" >>, << "d" >> >>,
      << << "h" >>, << "d" >>, DirLikeArchive >>,
      << << "h" >>, << "d" >>, DirLikeStamp >> }

SrcFiles ==
    { << << "h" >>, << "s" >>, << "f" >> >>,
      << << "h" >>, << "e" >>, << "f" >> >>,
      << << "h" >>, << "x" >> >> }

\* os.path.expandvars(os.path.expanduser(raw_path)): a leading "~" alone or
\* before "/" becomes the home directory; the alphabet has no "$".
expand_path(raw_path) ==
    IF /\ raw_path # << >>
       /\ Head(raw_path) = "~"
       /\ (Len(raw_path) = 1 \/ raw_path[2] = "/")
    THEN Home \o Tail(raw_path)
    ELSE raw_path

\* p.is_dir(), cw being the working directory's entries.  A relative path
\* is looked up in the working directory, whose subdirectories have no
\* modelled contents.
IsDir(p, cw) ==
    IF p.abs THEN p.parts = << >> \/ p.parts \in SrcDirs
    ELSE \/ p.parts = << >>
         \/ /\ Len(p.parts) = 1
            /\ p.parts[1] \in DOMAIN cw
            /\ cw[p.parts[1]].kind = "dir"

\* Mutant of ChildDirNames: every child, directory or not.
ChildDirNames_WithFiles(p, cw) ==
    IF p.abs
    THEN { q[Len(q)] : q \in { r \in SrcDirs \cup SrcFiles :
             Len(r) = Len(p.parts) + 1 /\ SubSeq(r, 1, Len(p.parts)) = p.parts } }
    ELSE IF p.parts = << >>
    THEN DOMAIN cw
    ELSE {}

\* The names of the children of p that are directories.
ChildDirNames(p, cw) ==
    IF p.abs
    THEN { q[Len(q)] : q \in { r \in SrcDirs :
             Len(r) = Len(p.parts) + 1 /\ SubSeq(r, 1, Len(p.parts)) = p.parts } }
    ELSE IF p.parts = << >>
    THEN { n \in DOMAIN cw : cw[n].kind = "dir" }
    ELSE {}

\* sorted(child for child in p.iterdir() if child.is_dir())
ChildDirs(p, cw) ==
    LET names == SortedNames(ChildDirNames(p, cw))
    IN  [ i \in 1..Len(names) |-> [ p EXCEPT !.parts = Append(p.parts, names[i]) ] ]

(***************************************************************************)
(* Configuration                                                           *)
(***************************************************************************)

Msg(kind, arg) == [ kind |-> kind, arg |-> arg ]

\* A prompt or an external tool invoked, for the target at a position of
\* dirs (0 outside the loop), and how it ended.
Call(tool, target, rc) == [ tool |-> tool, target |-> target, rc |-> rc ]

\* The config file does not exist (where its lines are expected).
Missing == << << "missing" >> >>

\* One line of the config file: no entry for a blank or comment line, else
\* the (directive, expanded path) tuple.
ParseLine(line) ==
    LET stripped == Strip(line)
        kw       == DirectiveOf(stripped)
    IN  IF stripped = << >> \/ Head(stripped) = "#" THEN << >>
        ELSE IF kw # NoMatch
        THEN << [ directive |-> IF kw = KwFolder THEN "folder" ELSE "path",
                  path |-> expand_path(
                      Strip(SubSeq(stripped, Len(kw) + 1, Len(stripped)))) ] >>
        ELSE << [ directive |-> "path", path |-> expand_path(stripped) ] >>

RECURSIVE ParseLines(_)
ParseLines(lines) ==
    IF lines = << >> THEN << >>
    ELSE ParseLine(Head(lines)) \o ParseLines(Tail(lines))

\* parse_config(config_path): the entries, or exit status 1 with a
\* message when the file is missing or holds no entry.
parse_config(cfg) ==
    IF cfg = Missing
    THEN [ exit |-> TRUE, err |-> << Msg("config_not_found", << >>) >>,
           entries |-> << >> ]
    ELSE LET entries == ParseLines(cfg)
         IN  IF entries = << >>
             THEN [ exit |-> TRUE, err |-> << Msg("no_paths", << >>) >>,
                    entries |-> << >> ]
             ELSE [ exit |-> FALSE, err |-> << >>, entries |-> entries ]

\* Mutant of ResolveEntry: a folder without subdirectories gives no warning.
ResolveEntry_NoHint(e, cw) ==
    LET p == PathOf(e.path)
    IN  IF e.directive = "path"
        THEN IF ~IsDir(p, cw)
             THEN [ dirs |-> << >>, err |-> << Msg("warn_path", PathStr(p)) >> ]
             ELSE [ dirs |-> << p >>, err |-> << >> ]
        ELSE IF ~IsDir(p, cw)
             THEN [ dirs |-> << >>, err |-> << Msg("warn_folder", PathStr(p)) >> ]
             ELSE [ dirs |-> ChildDirs(p, cw), err |-> << >> ]

\* One entry of resolve_backup_dirs: the directories it adds and the
\* warnings it prints.
ResolveEntry(e, cw) ==
    LET p == PathOf(e.path)
    IN  IF e.directive = "path"
        THEN IF ~IsDir(p, cw)
             THEN [ dirs |-> << >>, err |-> << Msg("warn_path", PathStr(p)) >> ]
             ELSE [ dirs |-> << p >>, err |-> << >> ]
        ELSE IF ~IsDir(p, cw)
             THEN [ dirs |-> << >>, err |-> << Msg("warn_folder", PathStr(p)) >> ]
             ELSE LET children == ChildDirs(p, cw)
                  IN  [ dirs |-> children,
                        err  |-> IF children = << >>
                                 THEN << Msg("warn_no_subdirs", PathStr(p)) >>
                                 ELSE << >> ]

\* resolve_backup_dirs(entries)
RECURSIVE resolve_backup_dirs(_, _)
resolve_backup_dirs(entries, cw) ==
    IF entries = << >> THEN [ dirs |-> << >>, err |-> << >> ]
    ELSE LET h == ResolveEntry(Head(entries), cw)
             t == resolve_backup_dirs(Tail(entries), cw)
         IN  [ dirs |-> h.dirs \o t.dirs, err |-> h.err \o t.err ]

(***************************************************************************)
(* Bounds and inputs                                                       *)
(***************************************************************************)

\* Entries that something other than the program puts in the working
\* directory.
MaxEntries == 2

Str_a == << "a" >>
Str_c == << "c" >>

TsOld     == << "2", "0", "2", "0", "-", "0", "1", "-", "1", "5", "-",
                "1", "2", "0", "0", "0", "0" >>
TsFuture  == << "2", "0", "3", "0", "-", "1", "2", "-", "3", "1", "-",
                "2", "3", "5", "9", "5", "9" >>
TsMonth13 == << "2", "0", "2", "4", "-", "1", "3", "-", "0", "1", "-",
                "0", "0", "0", "0", "0", "0" >>
TsFeb28   == << "2", "0", "2", "4", "-", "0", "2", "-", "2", "8", "-",
                "1", "2", "0", "0", "0", "0" >>

\* "{base}-{timestamp}.tar.gz.age"
ArchiveName(base, ts) == base \o << "-" >> \o ts \o TarGzAge

NameNotADate ==
    << "d", "-", "n", "o", "t", "a", "d", "a", "t", "e" >> \o TarGzAge

NameTxt == << "u", ".", "t", "x", "t" >>

\* What may appear in the working directory from outside: << name, kind >>.
ForeignEntries ==
    { << ArchiveName(Str_a, TsOld), "file" >>,
      << ArchiveName(Str_a, TsOld), "dir" >>,
      << ArchiveName(Str_c, TsOld), "file" >>,
      << ArchiveName(Str_a, TsFuture), "file" >>,
      << ArchiveName(Str_a, TsMonth13), "file" >>,
      << ArchiveName(Str_a, TsFeb28), "file" >>,
      << ArchiveName(Str_a, TsOld) \o TarGzAge, "file" >>,
      << ArchiveName(Str_a, TsOld) \o << "\n" >>, "file" >>,
      << NameNotADate, "file" >>,
      << NameNotADate, "dir" >>,
      << NameTxt, "file" >> }

\* The readings of the wall clock, in ascending order: noon of 2024-02-28,
\* two days later to the microsecond (the leap day lies between), and one
\* microsecond after that.  Each invocation reads a later time than the one
\* before it, so a behaviour holds at most as many invocations.
ClockTimes ==
    << DateTime(2024, 2, 28, 12, 0, 0, 0),
       DateTime(2024, 3, 1, 12, 0, 0, 0),
       DateTime(2024, 3, 1, 12, 0, 0, 1) >>

\* Capture times for archive names: the last microsecond of a leap day, the
\* first second of a year, the end of a year, single-digit fields, and the
\* first reading of ClockTimes.
NameClocks ==
    { DateTime(2024, 2, 29, 23, 59, 59, 999999),
      DateTime(2025, 1, 1, 0, 0, 0, 0),
      DateTime(2023, 12, 31, 23, 59, 0, 5),
      DateTime(2021, 3, 4, 5, 6, 7, 0),
      DateTime(2024, 2, 28, 12, 0, 0, 0) }

\* a is strictly later than b.
Later(a, b) ==
    LET td == DateTimeSub(a, b)
    IN  td.days > 0 \/ (td.days = 0 /\ (td.seconds > 0 \/ td.microseconds > 0))

\* The argument after --prune: absent, or a string.
PruneArgs ==
    { None, << >>, << "0" >>, << "0", "0" >>, << "1" >>, << "0", "2" >>,
      << "a", "b", "c" >>, << "-", "1" >>, << "1", "d" >> }

\* The first arguments that main() knows, and one that it does not.
FlagRestore == << "-", "-", "r", "e", "s", "t", "o", "r", "e" >>
FlagPrune   == << "-", "-", "p", "r", "u", "n", "e" >>
FlagCheck   == << "-", "-", "c", "h", "e", "c", "k" >>
FlagHelp    == << "-", "-", "h", "e", "l", "p" >>

\* A file name that nothing ever has.
NameNowhere == << "n" >>

\* The file argument after --restore: absent, or a name in the working
\* directory.
RestoreArgs ==
    { None, ArchiveName(Str_a, TsOld), ArchiveName(Str_a, TsFeb28),
      NameNotADate, NameNowhere }

\* sys.argv[1:]
PruneArgvs ==
    { IF d = None THEN << FlagPrune >> ELSE << FlagPrune, d >> : d \in PruneArgs }
    \cup { << FlagPrune, << "1" >>, FlagCheck >> }

RestoreArgvs ==
    { IF f = None THEN << FlagRestore >> ELSE << FlagRestore, f >> :
        f \in RestoreArgs }

CheckArgvs == { << FlagCheck >>, << FlagCheck, FlagPrune >> }

BackupArgvs == { << >>, << FlagHelp >>, << << "1" >>, FlagPrune >> }

Argvs == PruneArgvs \cup RestoreArgvs \cup CheckArgvs \cup BackupArgvs

\* The lines a config file is made of.
LnComment  == << "#", " ", "x" >>
LnBlank    == << " " >>
LnPathSA   == << "p", "a", "t", "h", " ", "~", "/", "s", "/", "a" >>
LnDirSB    == << "d", "i", "r", "e", "c", "t", "o", "r", "y", " ", " ",
                 "/", "h", "/", "s", "/", "b", " " >>
LnBareTA   == << "/", "h", "/", "t", "/", "a", "/" >>
LnFolderS  == << "f", "o", "l", "d", "e", "r", " ", "~", "/", "s" >>
LnFolderE  == << "f", "o", "l", "d", "e", "r", " ", "~", "/", "e" >>
LnPathNope == << "p", "a", "t", "h", " ", "~", "/", "n" >>
LnPathFile == << "p", "a", "t", "h", " ", "~", "/", "x" >>
LnFolderD  == << " ", "f", "o", "l", "d", "e", "r", " ", "~", "/", "d" >>
LnPathological ==
    << "p", "a", "t", "h", "o", "l", "o", "g", "i", "c", "a", "l" >>
LnPathOnly == << "p", "a", "t", "h", " " >>
LnBareRel  == NameNotADate

\* The config files: missing, or the sequence of its lines.
Configs ==
    { Missing,
      << >>,
      << LnComment, LnBlank >>,
      << LnPathNope >>,
      << LnFolderE, LnPathFile >>,
      << LnPathSA >>,
      << LnComment, LnPathNope, LnFolderS, LnBareTA >>,
      << LnPathSA, LnBareTA >>,
      << LnPathSA, LnPathSA >>,
      << LnPathNope, LnDirSB, LnBareTA >>,
      << LnFolderD, LnFolderE >>,
      << LnPathological, LnPathOnly, LnBareRel, LnDirSB >> }

\* os.environ.get("AGE_PASSPHRASE") when the program starts.
EnvPassphrases == { None, << >>, << "p" >> }

\* What the operator types at the two prompts.
TypedPassphrases == { << "p" >>, << "q" >> }

\* How an invocation of age ends: return code 0, a non-zero return code,
\* or an exception before it ran (age missing, /dev/tty cannot be opened).
AgeOutcomes == { "ok", "fail", "raise" }

\* How tar xz ends: return code 0, a non-zero return code, or an exception
\* before it ran (tar missing).
TarOutcomes == { "ok", "fail", "raise" }

\* The size in bytes of the encrypted archive of directory d.
RECURSIVE SumOrd(_)
SumOrd(str) == IF str = << >> THEN 0 ELSE Ord[Head(str)] + SumOrd(Tail(str))

ArchiveSize(d) == SumOrd(PathStr(d))

\* st_size of an entry that the program did not write.
ForeignSize(kind) == IF kind = "dir" THEN 4 ELSE 5

(***************************************************************************)
(* State                                                                   *)
(***************************************************************************)

VARIABLES
    clock,         \* the wall clock (datetime.now())
    cwd,           \* the working directory: name -> [kind, size, src]
    tmp,           \* temporary files left on disk
    made,          \* entries put in the working directory from outside
    prev,          \* the previous invocation: [mode, days, now]
    added,         \* an entry was put in the directory since it ended
    pc,            \* "idle", a position in cmd_backup or cmd_prune, "exit"
    cmd,           \* the invocation: [mode, arg]
    cwd0,          \* the working directory when the invocation started
    status,        \* the exit status
    out,           \* what was printed to stdout
    err,           \* what was printed to stderr
    calls,         \* prompts and external tools invoked, in order
    entries,       \* cmd_backup, cmd_check: what parse_config returned
    dirs,          \* cmd_backup, cmd_check: the resolved directories
    use_bp,        \* cmd_backup: has_batchpass()
    timestamp,     \* cmd_backup: the capture time, formatted
    total_size,    \* cmd_backup
    max_age_days,  \* cmd_prune
    now,           \* cmd_prune
    scan,          \* cmd_prune: sorted(Path(".").glob("*.tar.gz.age"))
    freed,         \* cmd_prune
    idx,           \* the position of the for loop in dirs or scan
    count          \* archives created or deleted

world  == << clock, cwd, tmp, made, prev, added >>
proc   == << pc, cmd, cwd0, status, out, err, calls >>
locals == << entries, dirs, use_bp, timestamp, total_size, max_age_days, now, scan,
             freed, idx, count >>
vars   == << world, proc, locals >>

\* No datetime (a local not yet assigned).
NoTime == ValueError

\* No exit status: the process has not exited.
Running == 0 - 1

\* No invocation.
NoCmd == [ mode |-> "none", arg |-> None, argv |-> << >> ]

NoRun == [ mode |-> "none", days |-> 0, now |-> NoTime ]

Init ==
    /\ clock = ClockTimes[1]
    /\ cwd = << >>
    /\ tmp = 0
    /\ made = 0
    /\ prev = NoRun
    /\ added = FALSE
    /\ pc = "idle"
    /\ cmd = NoCmd
    /\ cwd0 = << >>
    /\ status = Running
    /\ out = << >>
    /\ err = << >>
    /\ calls = << >>
    /\ entries = << >>
    /\ dirs = << >>
    /\ use_bp = FALSE
    /\ timestamp = << >>
    /\ total_size = 0
    /\ max_age_days = 0
    /\ now = NoTime
    /\ scan = << >>
    /\ freed = 0
    /\ idx = 0
    /\ count = 0

\* Init at any of the capture times.
InitNames ==
    /\ clock \in NameClocks
    /\ cwd = << >>
    /\ tmp = 0
    /\ made = 0
    /\ prev = NoRun
    /\ added = FALSE
    /\ pc = "idle"
    /\ cmd = NoCmd
    /\ cwd0 = << >>
    /\ status = Running
    /\ out = << >> /\ err = << >> /\ calls = << >>
    /\ entries = << >> /\ dirs = << >>
    /\ use_bp = FALSE
    /\ timestamp = << >>
    /\ total_size = 0
    /\ max_age_days = 0
    /\ now = NoTime
    /\ scan = << >>
    /\ freed = 0 /\ idx = 0 /\ count = 0

\* The locals of a function that has not been entered.
FreshLocals ==
    /\ entries' = << >>
    /\ dirs' = << >>
    /\ use_bp' = FALSE
    /\ timestamp' = << >>
    /\ total_size' = 0
    /\ max_age_days' = 0
    /\ now' = NoTime
    /\ scan' = << >>
    /\ freed' = 0
    /\ idx' = 0
    /\ count' = 0

\* f with name n bound to v (f may not have n yet).
Bind(f, n, v) == [ x \in DOMAIN f \cup {n} |-> IF x = n THEN v ELSE f[x] ]

\* Mutant of Unbind: the entry stays.
Unbind_Keeps(f, n) == f

\* f without name n (f.unlink()).
Unbind(f, n) == [ x \in DOMAIN f \ {n} |-> f[x] ]

\* Mutant of main: a mode flag is recognised at the second position too.
main_AnyPosition(args) ==
    LET second == IF Len(args) >= 2 THEN args[2] ELSE None
        has(flag) == \E i \in 1..Len(args) : i <= 2 /\ args[i] = flag
    IN  IF has(FlagRestore)
        THEN [ mode |-> "restore", arg |-> second ]
        ELSE IF has(FlagPrune)
        THEN [ mode |-> "prune", arg |-> second ]
        ELSE IF has(FlagCheck)
        THEN [ mode |-> "check", arg |-> None ]
        ELSE [ mode |-> "backup", arg |-> None ]

\* main(): the mode that args selects, and the argument handed to it.
main(args) ==
    LET second == IF Len(args) >= 2 THEN args[2] ELSE None
    IN  IF args # << >> /\ args[1] = FlagRestore
        THEN [ mode |-> "restore", arg |-> second ]
        ELSE IF args # << >> /\ args[1] = FlagPrune
        THEN [ mode |-> "prune", arg |-> second ]
        ELSE IF args # << >> /\ args[1] = FlagCheck
        THEN [ mode |-> "check", arg |-> None ]
        ELSE [ mode |-> "backup", arg |-> None ]

(***************************************************************************)
(* The world outside the program                                           *)
(***************************************************************************)

\* Time passes before an invocation.
Tick ==
    /\ pc = "idle"
    /\ \E k \in 1..Len(ClockTimes) :
          /\ Later(ClockTimes[k], clock)
          /\ clock' = ClockTimes[k]
    /\ UNCHANGED << cwd, tmp, made, prev, added, proc, locals >>

\* Something else creates a file or a directory in the working directory.
CreateEntry ==
    /\ pc = "idle"
    /\ made < MaxEntries
    /\ \E e \in ForeignEntries :
          /\ e[1] \notin DOMAIN cwd
          /\ cwd' = Bind(cwd, e[1],
                         [ kind |-> e[2], size |-> ForeignSize(e[2]),
                           src |-> "foreign" ])
    /\ made' = made + 1
    /\ added' = TRUE
    /\ UNCHANGED << clock, tmp, prev, proc, locals >>

\* The process is gone and the shell is back, some time after the process
\* read the clock.
Return ==
    /\ pc = "exit"
    /\ pc' = "idle"
    /\ \E k \in 1..Len(ClockTimes) :
          /\ Later(ClockTimes[k], clock)
          /\ clock' = ClockTimes[k]
    /\ prev' = [ mode |-> cmd.mode, days |-> max_age_days, now |-> now ]
    /\ added' = FALSE
    /\ cmd' = NoCmd
    /\ cwd0' = << >>
    /\ status' = Running
    /\ out' = << >>
    /\ err' = << >>
    /\ calls' = << >>
    /\ FreshLocals
    /\ UNCHANGED << cwd, tmp, made >>

(***************************************************************************)
(* cmd_prune                                                               *)
(***************************************************************************)

\* Mutant of PruneUsageError: zero is accepted.
PruneUsageError_ZeroAccepted(days_str) ==
    days_str = None \/ ~IsDigitStr(days_str)

\* days_str is None or not days_str.isdigit() or int(days_str) == 0
PruneUsageError(days_str) ==
    \/ days_str = None
    \/ ~IsDigitStr(days_str)
    \/ IntOf(days_str) = 0

\* sorted(Path(".").glob("*.tar.gz.age"))
PruneCandidates(cw) == SortedNames({ n \in DOMAIN cw : GlobMatches(n) })

\* Mutant of PruneDecision: a ValueError is skipped without a warning.
PruneDecision_Silent(f, kind, nowv, maxdays) ==
    LET ts_str == TsSearch(f)
    IN  IF ts_str = NoMatch THEN "skip"
        ELSE LET file_dt == Strptime(ts_str)
             IN  IF file_dt = ValueError THEN "skip"
                 ELSE IF ~AgeDaysExceeds(DateTimeSub(nowv, file_dt), maxdays)
                 THEN "keep"
                 ELSE IF kind = "dir" THEN "raise"
                 ELSE "delete"

\* What one iteration of the loop does with the entry named f:
\*   "skip"   the name does not match ts_pattern
\*   "warn"   strptime raised ValueError
\*   "keep"   the age does not exceed the threshold
\*   "delete" f.stat() and f.unlink() succeed
\*   "raise"  f.unlink() raises (IsADirectoryError: the entry is a directory)
PruneDecision(f, kind, nowv, maxdays) ==
    LET ts_str == TsSearch(f)
    IN  IF ts_str = NoMatch THEN "skip"
        ELSE LET file_dt == Strptime(ts_str)
             IN  IF file_dt = ValueError THEN "warn"
                 ELSE IF ~AgeDaysExceeds(DateTimeSub(nowv, file_dt), maxdays)
                 THEN "keep"
                 ELSE IF kind = "dir" THEN "raise"
                 ELSE "delete"

\* main() with --prune, and cmd_prune up to the loop.
MainPrune ==
    /\ pc = "idle"
    /\ \E args \in Argvs :
        LET days_str == main(args).arg
        IN
          /\ main(args).mode = "prune"
          /\ cmd' = [ mode |-> "prune", arg |-> days_str, argv |-> args ]
          /\ IF PruneUsageError(days_str)
             THEN /\ err' = << Msg("usage_prune", << >>) >>
                  /\ status' = 1
                  /\ pc' = "exit"
                  /\ UNCHANGED << max_age_days, now, scan, idx >>
             ELSE /\ max_age_days' = IntOf(days_str)
                  /\ now' = clock
                  /\ scan' = PruneCandidates(cwd)
                  /\ idx' = 1
                  /\ err' = << >>
                  /\ status' = Running
                  /\ pc' = "prune_loop"
    /\ cwd0' = cwd
    /\ out' = << >>
    /\ calls' = << >>
    /\ count' = 0
    /\ freed' = 0
    /\ UNCHANGED << world, entries, dirs, use_bp, timestamp, total_size >>

\* One iteration of "for f in sorted(...)".
PruneFile ==
    /\ pc = "prune_loop"
    /\ idx <= Len(scan)
    /\ LET f    == scan[idx]
           what == PruneDecision(f, cwd[f].kind, now, max_age_days)
           size == cwd[f].size
       IN  /\ cwd' = IF what = "delete" THEN Unbind(cwd, f) ELSE cwd
           /\ out' = IF what = "delete"
                     THEN Append(out, Msg("deleted", << f, size >>))
                     ELSE out
           /\ err' = CASE what = "warn"  -> Append(err, Msg("warn_timestamp", f))
                       [] what = "raise" -> Append(err, Msg("traceback", f))
                       [] OTHER          -> err
           /\ count' = IF what = "delete" THEN count + 1 ELSE count
           /\ freed' = IF what = "delete" THEN freed + size ELSE freed
           /\ IF what = "raise"
              THEN pc' = "exit" /\ status' = 1 /\ idx' = idx
              ELSE pc' = pc /\ status' = status /\ idx' = idx + 1
    /\ UNCHANGED << clock, tmp, made, prev, added, cmd, cwd0, calls,
                    entries, dirs, use_bp, timestamp, total_size,
                    max_age_days, now, scan >>

\* print(f"{count} archive(s) deleted, {freed} bytes freed"), and the exit.
PruneReport ==
    /\ pc = "prune_loop"
    /\ idx > Len(scan)
    /\ out' = Append(out, Msg("deleted_total", << count, freed >>))
    /\ status' = 0
    /\ pc' = "exit"
    /\ UNCHANGED << world, cmd, cwd0, err, calls, locals >>

(***************************************************************************)
(* cmd_check                                                               *)
(***************************************************************************)

\* The lines "  {d}" for the directories ds.
DirLines(ds) == [ i \in 1..Len(ds) |-> Msg("dir", PathStr(ds[i])) ]

\* Mutant of cmd_check: an empty list of directories is printed like any
\* other.
cmd_check_NoEmptyCheck(cfg, cw) ==
    LET parsed == parse_config(cfg)
        res    == resolve_backup_dirs(parsed.entries, cw)
    IN  IF parsed.exit
        THEN [ status |-> 1, out |-> << >>, err |-> parsed.err,
               entries |-> << >>, dirs |-> << >> ]
        ELSE [ status |-> 0,
               out |-> << Msg("config", << >>),
                          Msg("dirs_header", Len(res.dirs)) >>
                       \o DirLines(res.dirs),
               err |-> res.err,
               entries |-> parsed.entries, dirs |-> res.dirs ]

\* cmd_check(config_path): the exit status and what is printed.
cmd_check(cfg, cw) ==
    LET parsed == parse_config(cfg)
        res    == resolve_backup_dirs(parsed.entries, cw)
    IN  IF parsed.exit
        THEN [ status |-> 1, out |-> << >>, err |-> parsed.err,
               entries |-> << >>, dirs |-> << >> ]
        ELSE IF res.dirs = << >>
        THEN [ status |-> 1, out |-> << >>,
               err |-> Append(res.err, Msg("no_valid_dirs", << >>)),
               entries |-> parsed.entries, dirs |-> << >> ]
        ELSE [ status |-> 0,
               out |-> << Msg("config", << >>),
                          Msg("dirs_header", Len(res.dirs)) >>
                       \o DirLines(res.dirs),
               err |-> res.err,
               entries |-> parsed.entries, dirs |-> res.dirs ]

\* main() with --check, and cmd_check.
MainCheck ==
    /\ pc = "idle"
    /\ \E args \in Argvs, cfg \in Configs :
          LET r == cmd_check(cfg, cwd)
          IN  /\ main(args).mode = "check"
              /\ cmd' = [ mode |-> "check", arg |-> cfg, argv |-> args ]
              /\ status' = r.status
              /\ out' = r.out
              /\ err' = r.err
              /\ entries' = r.entries
              /\ dirs' = r.dirs
    /\ pc' = "exit"
    /\ cwd0' = cwd
    /\ calls' = << >>
    /\ UNCHANGED << world, use_bp, timestamp, total_size, max_age_days, now,
                    scan, freed, idx, count >>

(***************************************************************************)
(* cmd_restore                                                             *)
(***************************************************************************)

\* Mutant of IsFile: every path is taken for a file.
IsFile_Always(p, cw) == TRUE

\* p.is_file(), cw being the working directory's entries.
IsFile(p, cw) ==
    IF p.abs THEN p.parts \in SrcFiles
    ELSE /\ Len(p.parts) = 1
         /\ p.parts[1] \in DOMAIN cw
         /\ cw[p.parts[1]].kind = "file"

\* The head of cmd_restore: the usage error, the "not found" error, or
\* neither.
RestoreRefusal(filepath, cw) ==
    IF filepath = None THEN << Msg("usage_restore", << >>) >>
    ELSE IF ~IsFile(PathOf(filepath), cw)
    THEN << Msg("restore_not_found", filepath) >>
    ELSE << >>

\* Mutant of age_decrypt: a non-zero return code of age is reported, and
\* the function returns.
age_decrypt_NoExit(outcome, use_batchpass) ==
    CASE outcome = "raise" ->
           [ how |-> "raise", err |-> << Msg("traceback", << >>) >> ]
      [] outcome = "fail" ->
           [ how |-> "return", err |-> << Msg("error_age_decrypt", << >>) >> ]
      [] OTHER ->
           [ how |-> "return", err |-> << >> ]

\* age_decrypt(infile, use_batchpass), by how age ends: how is "return"
\* (the plaintext), "exit" (sys.exit(1)) or "raise" (age missing, or
\* /dev/tty cannot be opened when batchpass is not used).
age_decrypt(outcome, use_batchpass) ==
    CASE outcome = "raise" ->
           [ how |-> "raise", err |-> << Msg("traceback", << >>) >> ]
      [] outcome = "fail" ->
           [ how |-> "exit", err |-> << Msg("error_age_decrypt", << >>) >> ]
      [] OTHER ->
           [ how |-> "return", err |-> << >> ]

\* The working directory after tar xz has extracted the archived directory.
Extracted(cw) ==
    Bind(cw, Str_a, [ kind |-> "dir", size |-> ForeignSize("dir"),
                      src |-> "restored" ])

\* main() with --restore, and cmd_restore up to the passphrase.
MainRestore ==
    /\ pc = "idle"
    /\ \E args \in Argvs :
          LET filepath == main(args).arg
              refusal  == RestoreRefusal(filepath, cwd)
          IN  /\ main(args).mode = "restore"
              /\ cmd' = [ mode |-> "restore", arg |-> filepath, argv |-> args ]
              /\ err' = refusal
              /\ IF refusal # << >>
                 THEN status' = 1 /\ pc' = "exit"
                 ELSE status' = Running /\ pc' = "restore_decrypt"
    /\ cwd0' = cwd
    /\ out' = << >>
    /\ calls' = << >>
    /\ UNCHANGED << world, locals >>

\* The passphrase (AGE_PASSPHRASE, or one prompt), has_batchpass() and
\* age_decrypt.
RestoreDecrypt ==
    /\ pc = "restore_decrypt"
    /\ \E envp \in EnvPassphrases, typed \in TypedPassphrases,
          bp \in BOOLEAN, outcome \in AgeOutcomes :
          LET prompts == IF envp # None /\ envp # << >>
                         THEN << >>
                         ELSE << Call("prompt", 0, typed) >>
              dec     == age_decrypt(outcome, bp)
          IN  /\ use_bp' = bp
              /\ calls' = calls \o prompts \o << Call("age_d", 0, outcome) >>
              /\ err' = err \o dec.err
              /\ IF dec.how = "return"
                 THEN status' = status /\ pc' = "restore_extract"
                 ELSE status' = 1 /\ pc' = "exit"
    /\ UNCHANGED << world, cmd, cwd0, out, entries, dirs, timestamp,
                    total_size, max_age_days, now, scan, freed, idx, count >>

\* tar xz on the plaintext, and the message of success.  A tar that fails
\* may have extracted a part of the archive.
RestoreExtract ==
    /\ pc = "restore_extract"
    /\ \E outcome \in TarOutcomes, partial \in BOOLEAN :
          /\ calls' = Append(calls, Call("tar_x", 0, outcome))
          /\ cwd' = IF outcome = "ok" \/ (outcome = "fail" /\ partial)
                    THEN Extracted(cwd) ELSE cwd
          /\ err' = CASE outcome = "fail" ->
                            Append(err, Msg("error_tar_extract", << >>))
                      [] outcome = "raise" ->
                            Append(err, Msg("traceback", << >>))
                      [] OTHER -> err
          /\ out' = IF outcome = "ok"
                    THEN Append(out, Msg("restored", cmd.arg)) ELSE out
          /\ status' = IF outcome = "ok" THEN 0 ELSE 1
    /\ pc' = "exit"
    /\ UNCHANGED << clock, tmp, made, prev, added, cmd, cwd0, locals >>

(***************************************************************************)
(* cmd_backup                                                              *)
(***************************************************************************)

\* Mutant of BackupResolve: an empty list of directories is not an error.
BackupResolve_NoEmptyCheck(cfg, cw) ==
    LET parsed == parse_config(cfg)
        res    == resolve_backup_dirs(parsed.entries, cw)
    IN  IF parsed.exit
        THEN [ exit |-> TRUE, err |-> parsed.err, entries |-> << >>,
               dirs |-> << >> ]
        ELSE [ exit |-> FALSE, err |-> res.err, entries |-> parsed.entries,
               dirs |-> res.dirs ]

\* The head of cmd_backup: parse_config, resolve_backup_dirs, and the exit
\* when no directory is left.
BackupResolve(cfg, cw) ==
    LET parsed == parse_config(cfg)
        res    == resolve_backup_dirs(parsed.entries, cw)
    IN  IF parsed.exit
        THEN [ exit |-> TRUE, err |-> parsed.err, entries |-> << >>,
               dirs |-> << >> ]
        ELSE IF res.dirs = << >>
        THEN [ exit |-> TRUE,
               err  |-> Append(res.err, Msg("no_valid_dirs", << >>)),
               entries |-> parsed.entries,
               dirs |-> << >> ]
        ELSE [ exit |-> FALSE, err |-> res.err, entries |-> parsed.entries,
               dirs |-> res.dirs ]

\* Mutant of AcquirePassphrase: the two answers are not compared.
AcquirePassphrase_NoCompare(envp, typed, confirm) ==
    IF envp # None /\ envp # << >>
    THEN [ exit |-> FALSE, err |-> << >>, prompts |-> << >> ]
    ELSE [ exit |-> FALSE, err |-> << >>,
           prompts |-> << Call("prompt", 0, typed), Call("prompt", 0, confirm) >> ]

\* The passphrase: AGE_PASSPHRASE if set and not empty, else two prompts
\* whose answers must be equal.
AcquirePassphrase(envp, typed, confirm) ==
    IF envp # None /\ envp # << >>
    THEN [ exit |-> FALSE, err |-> << >>, prompts |-> << >> ]
    ELSE LET asked == << Call("prompt", 0, typed), Call("prompt", 0, confirm) >>
         IN  IF typed # confirm
             THEN [ exit |-> TRUE,
                    err  |-> << Msg("passphrases_do_not_match", << >>) >>,
                    prompts |-> asked ]
             ELSE [ exit |-> FALSE, err |-> << >>, prompts |-> asked ]

\* Mutant of age_encrypt: the temporary file is removed after age has run,
\* without a finally clause.
age_encrypt_NoFinally(outcome, use_batchpass, tmpv) ==
    LET staged == IF use_batchpass THEN tmpv ELSE tmpv + 1
        after  == IF use_batchpass THEN staged ELSE staged - 1
    IN  CASE outcome = "raise" ->
               [ how |-> "raise", err |-> << Msg("traceback", << >>) >>,
                 tmp |-> staged ]
          [] outcome = "fail" ->
               [ how |-> "exit", err |-> << Msg("error_age_encrypt", << >>) >>,
                 tmp |-> after ]
          [] OTHER ->
               [ how |-> "return", err |-> << >>, tmp |-> after ]

\* Mutant of age_encrypt: a non-zero return code of age is a warning, and
\* the function returns.
age_encrypt_NoExit(outcome, use_batchpass, tmpv) ==
    LET staged == IF use_batchpass THEN tmpv ELSE tmpv + 1
        after  == IF use_batchpass THEN staged ELSE staged - 1
    IN  CASE outcome = "raise" ->
               [ how |-> "raise", err |-> << Msg("traceback", << >>) >>,
                 tmp |-> after ]
          [] outcome = "fail" ->
               [ how |-> "return", err |-> << Msg("error_age_encrypt", << >>) >>,
                 tmp |-> after ]
          [] OTHER ->
               [ how |-> "return", err |-> << >>, tmp |-> after ]

\* age_encrypt(tar_data, outfile, use_batchpass), by how age ends.  how is
\* "return" (outfile written), "exit" (sys.exit(1)) or "raise" (the
\* exception leaves the function); tmp is the number of temporary files on
\* disk afterwards, given tmpv before: without batchpass one is created, and
\* removed in the finally clause.
age_encrypt(outcome, use_batchpass, tmpv) ==
    LET staged == IF use_batchpass THEN tmpv ELSE tmpv + 1
        after  == IF use_batchpass THEN staged ELSE staged - 1
    IN  CASE outcome = "raise" ->
               [ how |-> "raise", err |-> << Msg("traceback", << >>) >>,
                 tmp |-> after ]
          [] outcome = "fail" ->
               [ how |-> "exit", err |-> << Msg("error_age_encrypt", << >>) >>,
                 tmp |-> after ]
          [] OTHER ->
               [ how |-> "return", err |-> << >>, tmp |-> after ]

\* outfile.name for directory d
OutFileName(d, ts) == ArchiveName(PathName(d), ts)

\* main() without --restore, --prune or --check, and cmd_backup up to the
\* passphrase.
MainBackup ==
    /\ pc = "idle"
    /\ \E args \in Argvs, cfg \in Configs :
          LET r == BackupResolve(cfg, cwd)
          IN  /\ main(args).mode = "backup"
              /\ cmd' = [ mode |-> "backup", arg |-> cfg, argv |-> args ]
              /\ err' = r.err
              /\ entries' = r.entries
              /\ dirs' = r.dirs
              /\ IF r.exit
                 THEN status' = 1 /\ pc' = "exit"
                 ELSE status' = Running /\ pc' = "backup_passphrase"
    /\ cwd0' = cwd
    /\ out' = << >>
    /\ calls' = << >>
    /\ UNCHANGED << world, use_bp, timestamp, total_size, max_age_days, now,
                    scan, freed, idx, count >>

\* The passphrase, has_batchpass(), the timestamp and the counters.
BackupPassphrase ==
    /\ pc = "backup_passphrase"
    /\ \E envp \in EnvPassphrases, typed, confirm \in TypedPassphrases :
          LET r == AcquirePassphrase(envp, typed, confirm)
          IN  /\ calls' = calls \o r.prompts
              /\ err' = err \o r.err
              /\ IF r.exit
                 THEN /\ status' = 1
                      /\ pc' = "exit"
                      /\ UNCHANGED << use_bp, timestamp, idx >>
                 ELSE /\ status' = status
                      /\ pc' = "backup_loop"
                      /\ use_bp' \in BOOLEAN
                      /\ timestamp' = Strftime(clock)
                      /\ idx' = 1
    /\ count' = 0
    /\ total_size' = 0
    /\ UNCHANGED << world, cmd, cwd0, out, entries, dirs, max_age_days, now,
                    scan, freed >>

\* Mutant of ArchiveStep: a failure of tar ends the run.
ArchiveStep_TarFatal(k, d, tar_ok, outcome, use_batchpass, tmpv) ==
    LET enc == age_encrypt(outcome, use_batchpass, tmpv)
    IN  IF ~tar_ok
        THEN [ what  |-> "abort",
               calls |-> << Call("tar", k, "fail") >>,
               err   |-> << Msg("warn_tar", PathStr(d)) >>,
               tmp   |-> tmpv ]
        ELSE [ what  |-> IF enc.how = "return" THEN "stored" ELSE "abort",
               calls |-> << Call("tar", k, "ok"), Call("age", k, outcome) >>,
               err   |-> enc.err,
               tmp   |-> enc.tmp ]

\* The body of "for d in dirs" for the target at position k, by how tar
\* and age end: what is "skip" (tar failed: warning, continue), "stored"
\* (the archive is written and counted) or "abort" (age_encrypt did not
\* return).
ArchiveStep(k, d, tar_ok, outcome, use_batchpass, tmpv) ==
    LET enc == age_encrypt(outcome, use_batchpass, tmpv)
    IN  IF ~tar_ok
        THEN [ what  |-> "skip",
               calls |-> << Call("tar", k, "fail") >>,
               err   |-> << Msg("warn_tar", PathStr(d)) >>,
               tmp   |-> tmpv ]
        ELSE [ what  |-> IF enc.how = "return" THEN "stored" ELSE "abort",
               calls |-> << Call("tar", k, "ok"), Call("age", k, outcome) >>,
               err   |-> enc.err,
               tmp   |-> enc.tmp ]

\* One iteration of "for d in dirs".
BackupArchive ==
    /\ pc = "backup_loop"
    /\ idx <= Len(dirs)
    /\ \E tar_ok \in BOOLEAN, outcome \in AgeOutcomes :
          LET d       == dirs[idx]
              outfile == OutFileName(d, timestamp)
              size    == ArchiveSize(d)
              step    == ArchiveStep(idx, d, tar_ok, outcome, use_bp, tmp)
          IN  /\ calls' = calls \o step.calls
              /\ err' = err \o step.err
              /\ tmp' = step.tmp
              /\ IF step.what = "stored"
                 THEN /\ cwd' = Bind(cwd, outfile,
                                     [ kind |-> "file", size |-> size,
                                       src |-> PathStr(d) ])
                      /\ out' = Append(out, Msg("created", << outfile, size >>))
                      /\ count' = count + 1
                      /\ total_size' = total_size + size
                 ELSE UNCHANGED << cwd, out, count, total_size >>
              /\ IF step.what = "abort"
                 THEN status' = 1 /\ pc' = "exit" /\ idx' = idx
                 ELSE status' = status /\ pc' = pc /\ idx' = idx + 1
    /\ UNCHANGED << clock, made, prev, added, cmd, cwd0, entries, dirs, use_bp,
                    timestamp, max_age_days, now, scan, freed >>

\* print(f"{count} archive(s) created, total size: {total_size} bytes")
BackupReport ==
    /\ pc = "backup_loop"
    /\ idx > Len(dirs)
    /\ out' = Append(out, Msg("created_total", << count, total_size >>))
    /\ status' = 0
    /\ pc' = "exit"
    /\ UNCHANGED << world, cmd, cwd0, err, calls, locals >>

(***************************************************************************)
(* Specification                                                           *)
(***************************************************************************)

Next ==
    \/ Tick
    \/ CreateEntry
    \/ Return
    \/ MainPrune
    \/ PruneFile
    \/ PruneReport
    \/ MainBackup
    \/ BackupPassphrase
    \/ BackupArchive
    \/ BackupReport
    \/ MainCheck
    \/ MainRestore
    \/ RestoreDecrypt
    \/ RestoreExtract

Spec == Init /\ [][Next]_vars

\* The behaviours of Spec in which every invocation is --prune.
NextPrune ==
    \/ Tick
    \/ CreateEntry
    \/ Return
    \/ MainPrune
    \/ PruneFile
    \/ PruneReport

SpecPrune == Init /\ [][NextPrune]_vars

\* The behaviours of Spec in which every invocation is a backup and nothing
\* else writes to the working directory.
NextBackup ==
    \/ Tick
    \/ Return
    \/ MainBackup
    \/ BackupPassphrase
    \/ BackupArchive
    \/ BackupReport

SpecBackup == Init /\ [][NextBackup]_vars

\* One backup invocation at each of the capture times.
NextNames ==
    \/ MainBackup
    \/ BackupPassphrase
    \/ BackupArchive
    \/ BackupReport

SpecNames == InitNames /\ [][NextNames]_vars

\* The behaviours of Spec in which nothing but the program writes to the
\* working directory, each invocation later than the one before.
NextMain ==
    \/ Return
    \/ MainPrune
    \/ PruneFile
    \/ PruneReport
    \/ MainBackup
    \/ BackupPassphrase
    \/ BackupArchive
    \/ BackupReport
    \/ MainCheck
    \/ MainRestore
    \/ RestoreDecrypt
    \/ RestoreExtract

SpecMain == Init /\ [][NextMain]_vars

\* The behaviours of Spec in which every invocation is --check.
NextCheck ==
    \/ Tick
    \/ CreateEntry
    \/ Return
    \/ MainCheck

SpecCheck == Init /\ [][NextCheck]_vars

\* The behaviours of Spec in which every invocation is --restore.
NextRestore ==
    \/ Tick
    \/ CreateEntry
    \/ Return
    \/ MainRestore
    \/ RestoreDecrypt
    \/ RestoreExtract

SpecRestore == Init /\ [][NextRestore]_vars

(***************************************************************************)
(* Properties.  What the properties say about names, numbers and dates is  *)
(* defined here on its own, apart from the operators the program is        *)
(* modelled with.                                                          *)
(***************************************************************************)

DecimalValue ==
    "0" :> 0 @@ "1" :> 1 @@ "2" :> 2 @@ "3" :> 3 @@ "4" :> 4 @@
    "5" :> 5 @@ "6" :> 6 @@ "7" :> 7 @@ "8" :> 8 @@ "9" :> 9

IsDecimal(c) == c \in DOMAIN DecimalValue

\* The number a string of decimal digits denotes.
RECURSIVE NumberFrom(_, _)
NumberFrom(str, acc) ==
    IF str = << >> THEN acc
    ELSE NumberFrom(Tail(str), 10 * acc + DecimalValue[Head(str)])

NumberOf(str) == NumberFrom(str, 0)

\* The last k characters of a name.
LastChars(name, k) == SubSeq(name, Len(name) - k + 1, Len(name))

\* The name ends with "-DDDD-DD-DD-DDDDDD.tar.gz.age".
HasTimestampSuffix(name) ==
    /\ Len(name) >= 29
    /\ LET t == LastChars(name, 29)
       IN  /\ t[1] = "-" /\ t[6] = "-" /\ t[9] = "-" /\ t[12] = "-"
           /\ \A k \in {2, 3, 4, 5, 7, 8, 10, 11, 13, 14, 15, 16, 17, 18} :
                 IsDecimal(t[k])
           /\ SubSeq(t, 19, 29)
                = << ".", "t", "a", "r", ".", "g", "z", ".", "a", "g", "e" >>

\* The date and time that the digits of such a name denote.
StampOf(name) ==
    LET t == LastChars(name, 29)
    IN  [ y  |-> NumberOf(SubSeq(t, 2, 5)),
          mo |-> NumberOf(SubSeq(t, 7, 8)),
          d  |-> NumberOf(SubSeq(t, 10, 11)),
          h  |-> NumberOf(SubSeq(t, 13, 14)),
          mi |-> NumberOf(SubSeq(t, 15, 16)),
          s  |-> NumberOf(SubSeq(t, 17, 18)) ]

MonthLengths == << 31, 28, 31, 30, 31, 30, 31, 31, 30, 31, 30, 31 >>

LeapYear(y) == (y % 400 = 0) \/ (y % 4 = 0 /\ y % 100 # 0)

\* The date and time exist in the calendar.
StampExists(st) ==
    /\ st.y \in 1..9999
    /\ st.mo \in 1..12
    /\ st.d >= 1
    /\ st.d <= MonthLengths[st.mo] + (IF st.mo = 2 /\ LeapYear(st.y) THEN 1 ELSE 0)
    /\ st.h \in 0..23
    /\ st.mi \in 0..59
    /\ st.s \in 0..59

\* Days from 1970-01-01 to the civil date (era arithmetic on a year that
\* starts in March).
DaysFromCivil(y, m, d) ==
    LET yy  == IF m <= 2 THEN y - 1 ELSE y
        era == yy \div 400
        yoe == yy - era * 400
        mp  == IF m > 2 THEN m - 3 ELSE m + 9
        doy == ((153 * mp + 2) \div 5) + d - 1
        doe == yoe * 365 + (yoe \div 4) - (yoe \div 100) + doy
    IN  era * 146097 + doe - 719468

\* Seconds from 1970-01-01 00:00:00 to the stamp.
EpochSeconds(st) ==
    DaysFromCivil(st.y, st.mo, st.d) * 86400 + st.h * 3600 + st.mi * 60 + st.s

ClockStamp(dt) ==
    [ y |-> dt.year, mo |-> dt.month, d |-> dt.day,
      h |-> dt.hour, mi |-> dt.minute, s |-> dt.second ]

\* (nowv - T) in seconds is strictly greater than n * 86400, T being the
\* stamp in the name and nowv a clock reading with microseconds.
OlderThan(nowv, name, n) ==
    LET secs == EpochSeconds(ClockStamp(nowv)) - EpochSeconds(StampOf(name))
    IN  secs > n * 86400 \/ (secs = n * 86400 /\ nowv.microsecond > 0)

\* The argument of --prune is missing, non-numeric or zero.
BadPruneArg(arg) ==
    \/ arg = None
    \/ arg = << >>
    \/ \E k \in 1..Len(arg) : ~IsDecimal(arg[k])
    \/ \A k \in 1..Len(arg) : arg[k] = "0"

\* The messages of a kind in a stream, and the names prune printed as deleted.
Printed(stream, kind) == { k \in 1..Len(stream) : stream[k].kind = kind }

DeletedNames == { out[k].arg[1] : k \in Printed(out, "deleted") }

\* A prune invocation with a valid threshold is running or has ended.
Pruning == cmd.mode = "prune" /\ ~BadPruneArg(cmd.arg)

\* C1: no step of a prune invocation removes or changes an entry of the
\* working directory whose name does not end with -DDDD-DD-DD-DDDDDD.tar.gz.age,
\* whatever else the directory holds.
C1_NonMatchingNeverDeleted ==
    [][ \A n \in DOMAIN cwd :
          ~HasTimestampSuffix(n) => (n \in DOMAIN cwd' /\ cwd'[n] = cwd[n]) ]_vars

\* A prune that deleted an archive went past a candidate (*.tar.gz.age)
\* whose name does not end with the timestamp suffix, and ended.
C1_Witness ==
    /\ Pruning /\ pc = "exit" /\ status = 0 /\ count >= 1
    /\ \E k \in 1..Len(scan) :
          ~HasTimestampSuffix(scan[k]) /\ scan[k] \in DOMAIN cwd

\* C5: when a prune with threshold N has ended, a file of the directory whose
\* name ends with a valid timestamp T is gone if and only if now - T, in
\* seconds, is strictly greater than N * 86400.
C5_DeletedIffOlder ==
    (Pruning /\ pc = "exit") =>
        \A n \in DOMAIN cwd0 :
            (/\ cwd0[n].kind = "file"
             /\ HasTimestampSuffix(n)
             /\ StampExists(StampOf(n)))
            => ((n \notin DOMAIN cwd) <=> OlderThan(now, n, NumberOf(cmd.arg)))

\* The name has the digit shape of a timestamp, for a date or time that does
\* not exist.
ImpossibleStamp(n) == HasTimestampSuffix(n) /\ ~StampExists(StampOf(n))

\* The messages on stderr about the entry named n.
ErrAbout(n) ==
    { k \in 1..Len(err) :
        err[k].kind \in {"warn_timestamp", "traceback"} /\ err[k].arg = n }

\* The entry named n has had its turn in the loop.
Scanned(n) == \E k \in 1..Len(scan) : scan[k] = n /\ k < idx

\* C6: a file whose name has the timestamp shape for a date that does not
\* exist is skipped silently by prune: not deleted, not counted, and no
\* message about it.
C6_SkippedSilently ==
    Pruning =>
        \A n \in DOMAIN cwd0 :
            ImpossibleStamp(n) =>
                /\ n \in DOMAIN cwd
                /\ n \notin DeletedNames
                /\ ErrAbout(n) = {}

\* C6 as amended: such a file is never deleted nor counted, and its turn in
\* the loop prints exactly one warning that names it.
C6_SkippedWithWarning ==
    Pruning =>
        /\ count = Cardinality(Printed(out, "deleted"))
        /\ \A n \in DOMAIN cwd0 :
              ImpossibleStamp(n) =>
                  /\ n \in DOMAIN cwd /\ cwd[n] = cwd0[n]
                  /\ n \notin DeletedNames
                  /\ Cardinality(ErrAbout(n)) = (IF Scanned(n) THEN 1 ELSE 0)
                  /\ \A k \in ErrAbout(n) : err[k].kind = "warn_timestamp"

\* A prune that ended normally after deleting an archive and meeting a file
\* with an impossible timestamp.
C6_Witness ==
    /\ Pruning /\ pc = "exit" /\ status = 0 /\ count >= 1
    /\ \E n \in DOMAIN cwd0 : ImpossibleStamp(n) /\ Scanned(n)

\* The invocation is a prune that follows a prune with the same threshold,
\* and nothing was added to the directory in between.
SecondPrune ==
    /\ Pruning
    /\ prev.mode = "prune"
    /\ prev.days = NumberOf(cmd.arg)
    /\ ~added

C9_PruneNeverFails ==
    (Pruning /\ pc = "exit") =>
        /\ status = 0
        /\ out # << >>
        /\ out[Len(out)].kind = "deleted_total"

\* A backup invocation is running or has ended.
BackingUp == cmd.mode = "backup"

\* The tool was invoked for the target at position k and ended with rc.
Invoked(tool, k, rc) ==
    \E i \in 1..Len(calls) :
        calls[i].tool = tool /\ calls[i].target = k /\ calls[i].rc = rc

\* The tool was invoked for the target at position k.
Ran(tool, k) ==
    \E i \in 1..Len(calls) : calls[i].tool = tool /\ calls[i].target = k

\* The invocation has ended with the aggregate report of cmd_backup.
ReportedBackup ==
    /\ pc = "exit"
    /\ out # << >>
    /\ out[Len(out)].kind = "created_total"

\* The targets whose archive was stored and counted.
StoredTargets == { k \in 1..Len(dirs) : Invoked("age", k, "ok") }

RunFiles ==
    { n \in DOMAIN cwd : \E i \in Printed(out, "created") : out[i].arg[1] = n }

\* C4: at the end of a backup run the count reported equals the number of
\* distinct archive files the run left in the working directory, and the
\* run left as many files as it stored targets (none was overwritten).
C4_OneFilePerTarget ==
    (BackingUp /\ ReportedBackup) =>
        /\ out[Len(out)].arg[1] = Cardinality(RunFiles)
        /\ Cardinality(RunFiles) = Cardinality(StoredTargets)

\* The line of a config file is blank or a comment.
BlankOrComment(line) ==
    LET inked == { k \in 1..Len(line) : line[k] \notin {" ", "\n"} }
    IN  inked = {} \/ line[CHOOSE k \in inked : \A j \in inked : k <= j] = "#"

\* The config file holds zero entries.
NoEntryLines(cfg) ==
    cfg # Missing /\ \A k \in 1..Len(cfg) : BlankOrComment(cfg[k])

\* C10: with the config file missing, holding zero entries, or resolving to
\* no directory, backup exits with status 1 and an error message before any
\* passphrase is asked for and before tar or age is invoked; no archive is
\* created.
C10_NoTargetsExitsEarly ==
    (BackingUp /\ (cmd.arg = Missing \/ NoEntryLines(cmd.arg) \/ dirs = << >>)) =>
        /\ pc = "exit"
        /\ status = 1
        /\ err # << >>
        /\ calls = << >>
        /\ out = << >>
        /\ cwd = cwd0
        /\ tmp = 0

\* A backup whose config holds entries of which none resolves to a
\* directory.
C10_Witness ==
    /\ BackingUp /\ pc = "exit"
    /\ cmd.arg # Missing /\ ~NoEntryLines(cmd.arg)
    /\ dirs = << >>

\* The invocation resolved a config: backup or check.
Resolving == cmd.mode \in {"backup", "check"}

\* The directory named by the path exists: under the home directory, or by
\* a single relative name in the working directory.
ExistingDir(p) ==
    IF p.abs THEN p.parts = << >> \/ p.parts \in SrcDirs
    ELSE p.parts = << >>
         \/ (Len(p.parts) = 1 /\ p.parts[1] \in DOMAIN cwd0
                              /\ cwd0[p.parts[1]].kind = "dir")

\* The immediate children of p that are directories, and those that are
\* not.
SubDirs(p) ==
    IF p.abs
    THEN { q \in SrcDirs : Len(q) = Len(p.parts) + 1
                           /\ \A i \in 1..Len(p.parts) : q[i] = p.parts[i] }
    ELSE {}

OtherChildren(p) ==
    IF p.abs
    THEN { q \in SrcFiles : Len(q) = Len(p.parts) + 1
                            /\ \A i \in 1..Len(p.parts) : q[i] = p.parts[i] }
    ELSE {}

\* The paths of S in ascending order of their last component: the one at
\* position i has i - 1 smaller ones.
Ascending(S) ==
    [ i \in 1..Cardinality(S) |->
        CHOOSE q \in S :
            Cardinality({ r \in S : StrLess(r[Len(r)], q[Len(q)]) }) = i - 1 ]

\* The targets that one entry stands for.
TargetsOfEntry(e) ==
    LET p == PathOf(e.path)
    IN  IF ~ExistingDir(p) THEN << >>
        ELSE IF e.directive = "path" THEN << p >>
        ELSE IF e.directive = "folder"
        THEN LET kids == Ascending(SubDirs(p))
             IN  [ i \in 1..Len(kids) |-> [ abs |-> TRUE, parts |-> kids[i] ] ]
        ELSE << >>

RECURSIVE TargetsOf(_)
TargetsOf(es) ==
    IF es = << >> THEN << >> ELSE TargetsOfEntry(Head(es)) \o TargetsOf(Tail(es))

\* C11: the resolved list is the concatenation, in config order, of the
\* path itself for a path entry that is an existing directory, the child
\* directories in ascending order of name for a folder entry that is an
\* existing directory, and nothing for any other entry.
C11_ResolutionIsConcatenation ==
    Resolving => dirs = TargetsOf(entries)

\* A check of a config with a folder entry that has two child directories
\* and a child that is not a directory, after an entry that resolves to
\* nothing and before a path entry.
C11_Witness ==
    /\ cmd.mode = "check" /\ pc = "exit" /\ status = 0
    /\ \E k \in 2..(Len(entries) - 1) :
          /\ entries[k].directive = "folder"
          /\ Cardinality(SubDirs(PathOf(entries[k].path))) = 2
          /\ OtherChildren(PathOf(entries[k].path)) # {}
          /\ TargetsOfEntry(entries[k - 1]) = << >>
          /\ entries[k + 1].directive = "path"
          /\ Len(dirs) = 3

\* The warnings of target resolution, in the order printed.
IsResolveWarning(m) == m.kind \in {"warn_path", "warn_folder", "warn_no_subdirs"}

ResolveWarnings == SelectSeq(err, IsResolveWarning)

\* The entry stands for no target, and the warning that is due for it.
IsInvalidEntry(e) == TargetsOfEntry(e) = << >>

IsValidEntry(e) == ~IsInvalidEntry(e)

WarningDue(e) ==
    LET p == PathOf(e.path)
    IN  IF ExistingDir(p)
        THEN Msg("warn_no_subdirs", PathStr(p))
        ELSE IF e.directive = "folder"
        THEN Msg("warn_folder", PathStr(p))
        ELSE Msg("warn_path", PathStr(p))

Trimmed(line) ==
    LET inked == { k \in 1..Len(line) : line[k] \notin {" ", "\n"} }
    IN  IF inked = {} THEN << >>
        ELSE SubSeq(line, CHOOSE k \in inked : \A j \in inked : k <= j,
                          CHOOSE k \in inked : \A j \in inked : k >= j)

\* The keywords with which the trimmed line t begins, white space following.
KeywordsOf(t) ==
    { kw \in {KwPath, KwDirectory, KwFolder} :
        /\ Len(t) > Len(kw)
        /\ \A i \in 1..Len(kw) : t[i] = kw[i]
        /\ t[Len(kw) + 1] \in {" ", "\n"} }

\* The entry that a trimmed line, neither empty nor a comment, stands for.
EntryOfLine(t) ==
    IF KeywordsOf(t) = {}
    THEN [ directive |-> "path", path |-> expand_path(t) ]
    ELSE LET kw == CHOOSE k \in KeywordsOf(t) : TRUE
         IN  [ directive |-> IF kw = KwFolder THEN "folder" ELSE "path",
               path |-> expand_path(
                   Trimmed(SubSeq(t, Len(kw) + 1, Len(t)))) ]

RECURSIVE EntriesOfLines(_)
EntriesOfLines(lines) ==
    IF lines = << >> THEN << >>
    ELSE (IF BlankOrComment(Head(lines)) THEN << >>
          ELSE << EntryOfLine(Trimmed(Head(lines))) >>)
         \o EntriesOfLines(Tail(lines))

\* C13: parsing gives one entry for each line that is not empty and not a
\* comment once trimmed, in file order, with directive path or folder: the
\* keyword's directive (directory as path) and the remainder as the path
\* for a line that begins with path, directory or folder and white space,
\* and path with the whole trimmed line for any other line.
C13_OneEntryPerLine ==
    (Resolving /\ cmd.arg # Missing) =>
        /\ entries = EntriesOfLines(cmd.arg)
        /\ \A k \in 1..Len(entries) : entries[k].directive \in {"path", "folder"}

\* A check of a config with a line that begins with a keyword without
\* white space after it, a keyword alone, a bare path and a directory line.
C13_Witness ==
    /\ cmd.mode = "check" /\ pc = "exit"
    /\ Len(entries) = 4
    /\ entries[1] = [ directive |-> "path", path |-> LnPathological ]
    /\ entries[2] = [ directive |-> "path", path |-> KwPath ]
    /\ entries[4].directive = "path"
    /\ cmd.arg[4] = LnDirSB

\* A restore invocation is running or has ended.
Restoring == cmd.mode = "restore"

\* The argument of --restore names a regular file of the working directory
\* as it was when the invocation started.
NamesFile(arg) ==
    arg # None /\ arg \in DOMAIN cwd0 /\ cwd0[arg].kind = "file"

\* C14: a restore whose file argument is missing or does not name an
\* existing file exits with status 1 and the usage text or a "not found"
\* message, without a prompt for the passphrase, a decryption or an
\* extraction.
C14_RestoreNeedsFile ==
    (Restoring /\ ~NamesFile(cmd.arg)) =>
        /\ pc = "exit"
        /\ status = 1
        /\ err = IF cmd.arg = None
                 THEN << Msg("usage_restore", << >>) >>
                 ELSE << Msg("restore_not_found", cmd.arg) >>
        /\ calls = << >>
        /\ out = << >>
        /\ cwd = cwd0

\* A restore of a name that no entry of a non-empty working directory has.
C14_Witness ==
    /\ Restoring /\ pc = "exit"
    /\ cmd.arg # None
    /\ cmd.arg \notin DOMAIN cwd0
    /\ cwd0 # << >>

\* Decryption, or extraction, did not succeed.
DecryptFailed == Invoked("age_d", 0, "fail") \/ Invoked("age_d", 0, "raise")

ExtractFailed == Invoked("tar_x", 0, "fail") \/ Invoked("tar_x", 0, "raise")

\* C15: in a restore, a failed decryption ends the process with status 1
\* without an extraction, a failed extraction ends it with status 1, and
\* "Restored from" is printed only after both succeeded.
C15_RestoreFailureIsFatal ==
    Restoring =>
        /\ DecryptFailed => (pc = "exit" /\ status = 1 /\ ~Ran("tar_x", 0))
        /\ ExtractFailed => (pc = "exit" /\ status = 1)
        /\ Printed(out, "restored") # {} =>
               /\ Invoked("age_d", 0, "ok")
               /\ Invoked("tar_x", 0, "ok")
               /\ status = 0
        /\ status = 0 => Printed(out, "restored") # {}

\* A restore whose decryption succeeded and whose extraction failed.
C15_Witness ==
    /\ Restoring /\ pc = "exit"
    /\ Invoked("age_d", 0, "ok")
    /\ Invoked("tar_x", 0, "fail")

\* The targets that the config of the invocation resolves to.
ResolvedTargets ==
    IF cmd.arg = Missing THEN << >> ELSE TargetsOf(EntriesOfLines(cmd.arg))

\* C16: check mode exits 0 if and only if at least one target resolves,
\* and then prints the resolved list with its count; it exits 1 otherwise;
\* either way it asks for no passphrase, invokes no tool and leaves every
\* file as it was.
C16_CheckReportsAndTouchesNothing ==
    cmd.mode = "check" =>
        LET ts == ResolvedTargets
        IN  /\ pc = "exit"
            /\ status \in {0, 1}
            /\ status = 0 <=> ts # << >>
            /\ status = 0 =>
                   /\ Len(out) = Len(ts) + 2
                   /\ out[1].kind = "config"
                   /\ out[2] = Msg("dirs_header", Len(ts))
                   /\ \A i \in 1..Len(ts) : out[i + 2] = Msg("dir", PathStr(ts[i]))
            /\ status = 1 => (out = << >> /\ err # << >>)
            /\ calls = << >>
            /\ cwd = cwd0
            /\ tmp = 0

\* A check that listed two or more targets in a working directory that
\* holds entries.
C16_Witness ==
    /\ cmd.mode = "check" /\ pc = "exit" /\ status = 0
    /\ Len(dirs) >= 2
    /\ Cardinality(DOMAIN cwd0) >= 2

\* C17: whenever age_encrypt has returned or exited, with or without
\* batchpass and however age ended (success, failure, or not started), no
\* temporary file is left.
C17_TempFileRemoved ==
    BackingUp =>
        \A k \in 1..Len(dirs) : Ran("age", k) => tmp = 0

\* A run without batchpass in which age succeeded for one target and could
\* not be started for the next.
C17_Witness ==
    /\ BackingUp /\ pc = "exit" /\ ~use_bp
    /\ \E k \in 2..Len(dirs) :
          Invoked("age", k - 1, "ok") /\ Invoked("age", k, "raise")

\* The names that the run printed as created.
CreatedNames == { out[i].arg[1] : i \in Printed(out, "created") }

\* C18: every archive name that a backup produces is matched by prune's
\* timestamp pattern, and the timestamp found parses back to the capture
\* time of the run, to the second, whatever the base name is.
C18_NameRoundTrip ==
    BackingUp =>
        \A n \in CreatedNames :
            /\ TsSearch(n) # NoMatch
            /\ Strptime(TsSearch(n)) = [ clock EXCEPT !.microsecond = 0 ]

\* Archives created on a leap day, one second before midnight, for a
\* directory whose name is itself an archive name and for one whose name
\* ends in a timestamp.
C18_Witness ==
    /\ BackingUp /\ pc = "exit" /\ status = 0
    /\ clock.month = 2 /\ clock.day = 29 /\ clock.microsecond > 0
    /\ \E k, j \in 1..Len(dirs) :
          /\ dirs[k].parts[Len(dirs[k].parts)] = DirLikeArchive
          /\ dirs[j].parts[Len(dirs[j].parts)] = DirLikeStamp
          /\ k \in StoredTargets /\ j \in StoredTargets
    /\ Cardinality(CreatedNames) = 2

\* The answers to the prompts of the run, in order.
IsPrompt(c) == c.tool = "prompt"

PromptAnswers == SelectSeq(calls, IsPrompt)

\* C19: a backup that asked for the passphrase and its confirmation and got
\* two different answers exits with status 1 and the "do not match"
\* message without invoking tar or age for any target; no archive is
\* created.
C19_MismatchExitsBeforeArchiving ==
    (/\ BackingUp
     /\ Len(PromptAnswers) = 2
     /\ PromptAnswers[1].rc # PromptAnswers[2].rc) =>
        /\ pc = "exit"
        /\ status = 1
        /\ err # << >> /\ err[Len(err)].kind = "passphrases_do_not_match"
        /\ \A k \in 1..Len(dirs) : ~Ran("tar", k) /\ ~Ran("age", k)
        /\ Len(calls) = 2
        /\ out = << >>
        /\ cwd = cwd0

\* Two different answers in a run with two or more targets, in a working
\* directory that holds an archive of an earlier run.
C19_Witness ==
    /\ BackingUp /\ pc = "exit"
    /\ Len(PromptAnswers) = 2
    /\ PromptAnswers[1].rc # PromptAnswers[2].rc
    /\ Len(dirs) >= 2
    /\ cwd0 # << >>

\* The mode that the first argument stands for.
ModeOfFirst(argv) ==
    IF argv = << >> THEN "backup"
    ELSE IF argv[1] = FlagRestore THEN "restore"
    ELSE IF argv[1] = FlagPrune THEN "prune"
    ELSE IF argv[1] = FlagCheck THEN "check"
    ELSE "backup"

\* The positions of the program that belong to a mode.
PositionsOf(mode) ==
    CASE mode = "backup"  -> {"backup_passphrase", "backup_loop", "exit"}
      [] mode = "prune"   -> {"prune_loop", "exit"}
      [] mode = "restore" -> {"restore_decrypt", "restore_extract", "exit"}
      [] mode = "check"   -> {"exit"}
      [] OTHER            -> {"idle"}

\* What only one mode prints or invokes.
TracesOf(mode) ==
    CASE mode = "backup"  -> {"created", "created_total", "tar", "age"}
      [] mode = "prune"   -> {"deleted", "deleted_total"}
      [] mode = "restore" -> {"restored", "age_d", "tar_x"}
      [] mode = "check"   -> {"config", "dirs_header", "dir"}
      [] OTHER            -> {}

AllTraces ==
    TracesOf("backup") \cup TracesOf("prune") \cup TracesOf("restore")
    \cup TracesOf("check")

\* C20: an invocation runs the one mode that its first argument selects:
\* restore, prune and check for their flags, backup for no argument and
\* for any other first argument; nothing of another mode is printed or
\* invoked.
C20_FirstArgumentSelectsMode ==
    pc # "idle" =>
        /\ cmd.mode = ModeOfFirst(cmd.argv)
        /\ pc \in PositionsOf(cmd.mode)
        /\ \A i \in 1..Len(out) :
              out[i].kind \in AllTraces => out[i].kind \in TracesOf(cmd.mode)
        /\ \A i \in 1..Len(calls) :
              calls[i].tool \in AllTraces => calls[i].tool \in TracesOf(cmd.mode)

\* A full backup that ran to its report for a first argument that is not a
\* mode flag, with a mode flag as the second argument.
C20_Witness ==
    /\ cmd.mode = "backup" /\ ReportedBackup /\ status = 0
    /\ Len(cmd.argv) = 2 /\ cmd.argv[2] = FlagPrune
    /\ out[Len(out)].arg[1] >= 1

====
